---- MODULE Spec2Model ----
(***************************************************************************)
(* The /ask handler of app.py and the quote cache behind it.               *)
(*                                                                         *)
(* The Flask development server (app.run) serves requests on threads, so   *)
(* the handler is modelled as a process per worker thread; the module      *)
(* globals cached_data and last_fetch_time are shared.  Every read or      *)
(* write of a global that the source separates by a call (logging, the     *)
(* provider request) or by a statement boundary is a step of its own.      *)
(***************************************************************************)
EXTENDS Integers, Sequences, FiniteSets, TLC

\* ------------------------------------------------------------------ bounds
Threads == {1, 2}
StartTime == 1000      \* time.time() when the process starts serving
MaxTime == 1300        \* the clock is not advanced past this
TickSteps == {299, 300}

\* --------------------------------------------------------------- constants
CACHE_DURATION_SECONDS == 300

\* Python's None and an optional value: <<>> is None, <<x>> is x.
None == <<>>
Some(x) == <<x>>
IsNone(o) == o = <<>>
The(o) == o[1]

\* ------------------------------------------------- provider responses (JSON)
\* A JSON field of the "bitcoin" object: absent key, null, a number, or a
\* value of the wrong type (a string).
Absent == [k |-> "absent", v |-> 0]
Null == [k |-> "null", v |-> 0]
BadType == [k |-> "str", v |-> 0]
Num(n) == [k |-> "num", v |-> n]

\* dict.get(key): None for an absent key, else the value (null is None too).
Get(f) == IF f.k = "absent" THEN Null ELSE f

\* A response of requests.get: transport outcome, HTTP status class, body.
\*   outcome: "timeout" (any RequestException of the transport) or "response"
\*   ok: the status is not 4xx/5xx;  json: the body is JSON
\*   top: "object" | "number" (the JSON value's type)
\*   has_bitcoin / bitcoin_is_dict: shape of data['bitcoin']
Resp(outcome, ok, json, top, hasb, bdict, usd, mcap, vol, upd) ==
    [outcome |-> outcome, ok |-> ok, json |-> json, top |-> top,
     has_bitcoin |-> hasb, bitcoin_is_dict |-> bdict,
     usd |-> usd, usd_market_cap |-> mcap, usd_24h_vol |-> vol,
     last_updated_at |-> upd]

Quote(usd, mcap, vol, upd) ==
    Resp("response", TRUE, TRUE, "object", TRUE, TRUE, usd, mcap, vol, upd)

RespTimeout == Resp("timeout", FALSE, FALSE, "object", FALSE, FALSE, Absent, Absent, Absent, Absent)
RespHttpError == Resp("response", FALSE, FALSE, "object", FALSE, FALSE, Absent, Absent, Absent, Absent)
RespNotJson == Resp("response", TRUE, FALSE, "object", FALSE, FALSE, Absent, Absent, Absent, Absent)
RespJsonNumber == Resp("response", TRUE, TRUE, "number", FALSE, FALSE, Absent, Absent, Absent, Absent)
RespNoBitcoin == Resp("response", TRUE, TRUE, "object", FALSE, FALSE, Absent, Absent, Absent, Absent)
RespBitcoinNotDict == Resp("response", TRUE, TRUE, "object", TRUE, FALSE, Absent, Absent, Absent, Absent)

\* The responses the provider is let to give.
ProviderResponses ==
    { RespTimeout, RespHttpError, RespNotJson, RespJsonNumber, RespNoBitcoin,
      RespBitcoinNotDict,
      Quote(Absent, Absent, Absent, Absent),      \* no numeric field at all
      Quote(Absent, Num(7), Num(9), Num(5)),      \* only the price is absent
      Quote(Null, Absent, Absent, Absent),        \* "usd": null
      Quote(Num(1), Num(7), Num(9), Num(5)),
      Quote(Num(2), Num(7), Absent, Null),
      Quote(BadType, Num(7), Num(9), Num(5)),     \* "usd": "65000"
      Quote(Num(1), BadType, Num(9), BadType) }


\* ------------------------------------------------------- get_bitcoin_data
\* Mutants of the freshness test: the age taken in milliseconds, and the
\* boundary included.
IsFreshMillis(current_time, fetch_time) ==
    (current_time - fetch_time) * 1000 < 300

IsFreshInclusive(current_time, fetch_time) ==
    (current_time - fetch_time) <= 300

\* Line 91, second operand: the snapshot recorded at last_fetch_time is still
\* fresh for a call that read the clock as current_time.
IsFresh(current_time, fetch_time) ==
    (current_time - fetch_time) < CACHE_DURATION_SECONDS

\* Python truthiness of a JSON value (line 111).
Truthy(f) == \/ f.k = "num" /\ f.v # 0
             \/ f.k = "str"

\* Lines 99-123 on a provider response: how the try block ends. "returns"
\* is the return of line 131, "else" the branch of line 133, any other value
\* the class of the exception raised:
\*   line 99 requests.get -> Timeout; line 100 raise_for_status -> HTTPError;
\*   line 101 response.json() -> requests' JSONDecodeError or, with an older
\*   requests, ValueError (both are outcomes of the build);
\*   line 103 'bitcoin' in 5, 'usd' in 5 -> TypeError;
\*   lines 119-121 f"{'65000':,.2f}" -> ValueError.
TryBlock(r) ==
    IF r.outcome = "timeout" THEN {"Timeout"}
    ELSE IF ~r.ok THEN {"HTTPError"}
    ELSE IF ~r.json THEN {"JSONDecodeError", "ValueError"}
    ELSE IF r.top # "object" THEN {"TypeError"}
    ELSE IF ~r.has_bitcoin THEN {"else"}
    ELSE IF ~r.bitcoin_is_dict THEN {"TypeError"}
    ELSE IF r.usd.k = "absent" THEN {"else"}
    ELSE IF \E f \in {Get(r.usd), Get(r.usd_market_cap), Get(r.usd_24h_vol)} :
                f.k = "str" THEN {"ValueError"}
    ELSE {"returns"}

\* The subclasses of requests.exceptions.RequestException among them.
RequestExceptions == {"Timeout", "HTTPError", "JSONDecodeError"}

\* Mutant of ExceptClause: the clause of line 149 is missing.
ExceptClauseRequestOnly(exc) ==
    IF exc \in RequestExceptions THEN "request" ELSE "escapes"

\* Lines 141 and 149: the except clause that takes an exception ("escapes"
\* if none did): every class raised is an Exception, which line 149 takes.
ExceptClause(exc) ==
    IF exc \in RequestExceptions THEN "request" ELSE "unexpected"

\* The branch of get_bitcoin_data a try-block ending leads to: "ok" (lines
\* 104-131), "parse" (133-139), "request" (141-147), "unexpected" (149-155).
Outcome(x) ==
    IF x = "returns" THEN "ok"
    ELSE IF x = "else" THEN "parse"
    ELSE ExceptClause(x)

\* A rendered amount or date: "N/A", or the value formatted.
NA == [na |-> TRUE, amount |-> 0]
Formatted(n) == [na |-> FALSE, amount |-> n]

\* Mutant of Money: None formatted as the amount 0.
MoneyZero(f) == Formatted(f.v)

\* Lines 119-121: f"${x:,.2f}" if x is not None else "N/A".
Money(f) == IF f.k = "null" THEN NA ELSE Formatted(f.v)

\* Lines 110-116: the timestamp, "N/A" when falsy or when formatting raises.
LastUpdated(f) == IF Truthy(f) /\ f.k = "num" THEN Formatted(f.v) ELSE NA

\* A text returned by get_bitcoin_data: the data block header or a
\* placeholder sentence, and the four rendered lines.
Text(head, price, mcap, vol, upd) ==
    [head |-> head, price |-> price, market_cap |-> mcap, volume |-> vol,
     updated |-> upd]

\* Lines 118-123: formatted_data_string.
Render(r) ==
    Text("--- RECENT BITCOIN DATA ---",
         Money(Get(r.usd)), Money(Get(r.usd_market_cap)),
         Money(Get(r.usd_24h_vol)), LastUpdated(Get(r.last_updated_at)))

\* Lines 139, 147, 155: the text returned when there is nothing to fall back on.
Placeholder(kind) ==
    Text(CASE kind = "parse" ->
                "Could not fetch real-time data due to an API response format issue."
           [] kind = "request" ->
                "Could not fetch real-time data due to an API error."
           [] OTHER ->
                "Could not fetch real-time data due to an unexpected error.",
         NA, NA, NA, NA)

\* Lines 134, 143, 151: fetch_error.
FetchError(kind) ==
    CASE kind = "parse" -> "Could not parse Bitcoin data from CoinGecko API response."
      [] kind = "request" -> "Request Error: e"
      [] OTHER -> "Unexpected Error: e"

\* Lines 138, 146, 154: the note that goes with the stale snapshot.
StaleNote(kind) ==
    CASE kind = "parse" -> "Using stale data due to parsing error."
      [] kind = "request" -> "Using stale data due to fetch error."
      [] OTHER -> "Using stale data due to unexpected error."

\* Lines 125-128: the snapshot stored in cached_data.
Snapshot(formatted, r) == [formatted_string |-> formatted, raw_data |-> r]

\* A (text, note) pair returned by get_bitcoin_data.
Pair(text, note) == [text |-> text, note |-> note]

\* Lines 93 and 131: the return of a cache hit and of a successful fetch.
HitReturn(cache) == Pair(The(cache).formatted_string, None)
FreshReturn(formatted) == Pair(formatted, None)

\* Mutant of StaleReturn: the stale text without a note.
StaleReturnSilent(kind, cache) == Pair(The(cache).formatted_string, None)

\* Mutant of StaleReturn: a failed fetch forgets the snapshot and returns the
\* placeholder of its kind under the stale note.
StaleReturnPlaceholder(kind, cache) ==
    Pair(Placeholder(kind), Some(StaleNote(kind)))

\* Lines 138, 146, 154: the stale snapshot with its note.
StaleReturn(kind, cache) ==
    Pair(The(cache).formatted_string, Some(StaleNote(kind)))

\* Mutant of UnavailableReturn: the placeholder without a note.
UnavailableReturnSilent(kind) == Pair(Placeholder(kind), None)

\* Lines 139, 147, 155: no snapshot to fall back on.
UnavailableReturn(kind) == Pair(Placeholder(kind), Some(FetchError(kind)))

\* ------------------------------------------------------------ /ask requests
\* One history turn as the front end sends it; a turn may lack a key.
Turn(type, text) == [has_type |-> TRUE, type |-> type, has_text |-> TRUE, text |-> text]
TurnNoType(text) == [has_type |-> FALSE, type |-> "", has_text |-> TRUE, text |-> text]

\* The value of the "history" field: a JSON array of turns, or a value
\* without a length (null, a number): sized = FALSE.
HistoryList(turns) == [sized |-> TRUE, turns |-> turns]
HistoryNull == [sized |-> FALSE, turns |-> << >>]

\* The JSON body of a request.
Request(hasq, q, hash, h) ==
    [has_question |-> hasq, question |-> q, has_history |-> hash, history |-> h]

Requests ==
    { Request(TRUE, "What is Bitcoin?", TRUE, HistoryList(<< >>)),
      Request(TRUE, "And the price?", TRUE,
              HistoryList(<< Turn("user", "hi"), Turn("bot", "hello"),
                             Turn("system", "note") >>)),
      Request(TRUE, "What is Bitcoin?", TRUE, HistoryList(<< TurnNoType("hi") >>)),
      Request(TRUE, "What is Bitcoin?", TRUE, HistoryNull),
      Request(TRUE, "", TRUE, HistoryList(<< >>)),
      Request(TRUE, "", TRUE, HistoryNull),
      Request(TRUE, "", FALSE, HistoryList(<< >>)),
      Request(TRUE, "What is Bitcoin?", FALSE, HistoryList(<< >>)),
      Request(FALSE, "", TRUE, HistoryList(<< >>)) }

\* Line 270: the body lacks a required field.
MissingFields(r) == ~r.has_question \/ ~r.has_history

\* Mutant of EmptyQuestion: "if user_question is None", which no JSON string is.
QuestionIsNone(r) == FALSE

\* Line 277: not user_question.
EmptyQuestion(r) == r.question = ""

\* Line 282: the f-string of the debug message evaluates
\* len(chat_history_frontend), which raises for a value without a length.
HistoryLenRaises(r) == ~r.history.sized

\* ---------------------------------------------------------- resource links
\* A link of the table and a rule: the alternatives of its pattern, each a
\* phrase of lower-case words between word boundaries (\b), and its links.
Link(text, url) == [text |-> text, url |-> url]
Rule(phrases, links) == [phrases |-> phrases, links |-> links]

\* Lines 188-220.
RESOURCE_LINKS ==
    { Rule({ << "what", "is", "bitcoin" >>, << "intro", "to", "bitcoin" >>, << "bitcoin", "explained" >> },
           << Link("Bitcoin.org - Getting Started",
              "https://bitcoin.org/en/getting-started"),
              Link("CoinDesk - What is Bitcoin?",
              "https://www.coindesk.com/learn/what-is-bitcoin") >>),
      Rule({ << "blockchain" >> },
           << Link("Investopedia - Blockchain Explained",
              "https://www.investopedia.com/terms/b/blockchain.asp"),
              Link("Bitcoin.org - Blockchain (Developer Guide)",
              "https://bitcoin.org/en/developer-guide#block-chain") >>),
      Rule({ << "mining" >>, << "bitcoin", "mining" >> },
           << Link("Coinbase - What is Bitcoin Mining?",
              "https://www.coinbase.com/learn/crypto-basics/what-is-mining") >>),
      Rule({ << "satoshi", "nakamoto" >>, << "whitepaper" >> },
           << Link("Bitcoin Whitepaper (Original PDF)",
              "https://bitcoin.org/bitcoin.pdf") >>),
      Rule({ << "halving" >>, << "bitcoin", "halving" >> },
           << Link("CoinGecko - Bitcoin Halving Guide",
              "https://www.coingecko.com/learn/bitcoin-halving-guide") >>),
      Rule({ << "wallet" >>, << "wallets" >>, << "bitcoin", "wallet" >> },
           << Link("Bitcoin.org - Choose your Wallet",
              "https://bitcoin.org/en/choose-your-wallet") >>),
      Rule({ << "lightning", "network" >>, << "layer", "2" >> },
           << Link("Lightning Network Whitepaper (Original PDF)",
              "https://lightning.network/lightning-network-paper.pdf"),
              Link("Coinbase - What is the Lightning Network?",
              "https://www.coinbase.com/learn/crypto-basics/what-is-the-lightning-network") >>),
      Rule({ << "price" >>, << "market", "cap" >>, << "volume" >>, << "coin", "gecko" >>, << "coingecko" >> },
           << Link("CoinGecko - Bitcoin Price Chart",
              "https://www.coingecko.com/en/coins/bitcoin") >>),
      Rule({ << "transaction" >>, << "transactions" >>, << "fees" >> },
           << Link("Mempool.space (Bitcoin Explorer)",
              "https://mempool.space/") >>) }

\* The words (runs of \w) and punctuation marks of the texts an answer can
\* be; words are separated by one space.
Tokens(text) ==
    CASE text = "Bitcoin is a decentralized digital currency." ->
           << "Bitcoin", "is", "a", "decentralized", "digital", "currency", "." >>
      [] text = "What is Bitcoin? MINING secures the blockchains." ->
           << "What", "is", "Bitcoin", "?", "MINING", "secures", "the",
              "blockchains", "." >>
      [] text = "Response blocked or incomplete. Reason: r. Finish: f. Please try rephrasing." ->
           << "Response", "blocked", "or", "incomplete", ".", "Reason", ":", "r",
              ".", "Finish", ":", "f", ".", "Please", "try", "rephrasing", "." >>
      [] OTHER ->
           << "An", "internal", "error", "occurred", "while", "contacting",
              "the", "AI", ":", "e" >>

\* str.lower() on a word of these texts.
LowerWord(w) ==
    CASE w = "Bitcoin" -> "bitcoin"
      [] w = "What" -> "what"
      [] w = "MINING" -> "mining"
      [] w = "Response" -> "response"
      [] w = "Reason" -> "reason"
      [] w = "Finish" -> "finish"
      [] w = "Please" -> "please"
      [] w = "An" -> "an"
      [] w = "AI" -> "ai"
      [] OTHER -> w

\* Line 229: text_to_analyze.lower().
Lower(tokens) == [i \in 1..Len(tokens) |-> LowerWord(tokens[i])]

\* A phrase occurs in the words, between word boundaries.
Occurs(phrase, words) ==
    \E i \in 0..(Len(words) - Len(phrase)) :
        \A j \in 1..Len(phrase) : words[i + j] = phrase[j]

\* Line 232: re.search(pattern, lower_text).
Search(rule, text) ==
    \E phrase \in rule.phrases : Occurs(phrase, Lower(Tokens(text)))

\* Lines 223-237: find_relevant_links, the set of (text, url) pairs found.
find_relevant_links(text, links_dict) ==
    UNION { { rule.links[i] : i \in 1..Len(rule.links) } :
            rule \in { r \in links_dict : Search(r, text) } }

\* The code points of a label.
CodePoints(label) ==
    CASE label = "Bitcoin.org - Getting Started" ->
           << 66, 105, 116, 99, 111, 105, 110, 46, 111, 114, 103, 32, 45, 32, 71, 101, 116, 116, 105, 110, 103, 32, 83, 116, 97, 114, 116, 101, 100 >>
      [] label = "CoinDesk - What is Bitcoin?" ->
           << 67, 111, 105, 110, 68, 101, 115, 107, 32, 45, 32, 87, 104, 97, 116, 32, 105, 115, 32, 66, 105, 116, 99, 111, 105, 110, 63 >>
      [] label = "Investopedia - Blockchain Explained" ->
           << 73, 110, 118, 101, 115, 116, 111, 112, 101, 100, 105, 97, 32, 45, 32, 66, 108, 111, 99, 107, 99, 104, 97, 105, 110, 32, 69, 120, 112, 108, 97, 105, 110, 101, 100 >>
      [] label = "Bitcoin.org - Blockchain (Developer Guide)" ->
           << 66, 105, 116, 99, 111, 105, 110, 46, 111, 114, 103, 32, 45, 32, 66, 108, 111, 99, 107, 99, 104, 97, 105, 110, 32, 40, 68, 101, 118, 101, 108, 111, 112, 101, 114, 32, 71, 117, 105, 100, 101, 41 >>
      [] label = "Coinbase - What is Bitcoin Mining?" ->
           << 67, 111, 105, 110, 98, 97, 115, 101, 32, 45, 32, 87, 104, 97, 116, 32, 105, 115, 32, 66, 105, 116, 99, 111, 105, 110, 32, 77, 105, 110, 105, 110, 103, 63 >>
      [] label = "Bitcoin Whitepaper (Original PDF)" ->
           << 66, 105, 116, 99, 111, 105, 110, 32, 87, 104, 105, 116, 101, 112, 97, 112, 101, 114, 32, 40, 79, 114, 105, 103, 105, 110, 97, 108, 32, 80, 68, 70, 41 >>
      [] label = "CoinGecko - Bitcoin Halving Guide" ->
           << 67, 111, 105, 110, 71, 101, 99, 107, 111, 32, 45, 32, 66, 105, 116, 99, 111, 105, 110, 32, 72, 97, 108, 118, 105, 110, 103, 32, 71, 117, 105, 100, 101 >>
      [] label = "Bitcoin.org - Choose your Wallet" ->
           << 66, 105, 116, 99, 111, 105, 110, 46, 111, 114, 103, 32, 45, 32, 67, 104, 111, 111, 115, 101, 32, 121, 111, 117, 114, 32, 87, 97, 108, 108, 101, 116 >>
      [] label = "Lightning Network Whitepaper (Original PDF)" ->
           << 76, 105, 103, 104, 116, 110, 105, 110, 103, 32, 78, 101, 116, 119, 111, 114, 107, 32, 87, 104, 105, 116, 101, 112, 97, 112, 101, 114, 32, 40, 79, 114, 105, 103, 105, 110, 97, 108, 32, 80, 68, 70, 41 >>
      [] label = "Coinbase - What is the Lightning Network?" ->
           << 67, 111, 105, 110, 98, 97, 115, 101, 32, 45, 32, 87, 104, 97, 116, 32, 105, 115, 32, 116, 104, 101, 32, 76, 105, 103, 104, 116, 110, 105, 110, 103, 32, 78, 101, 116, 119, 111, 114, 107, 63 >>
      [] label = "CoinGecko - Bitcoin Price Chart" ->
           << 67, 111, 105, 110, 71, 101, 99, 107, 111, 32, 45, 32, 66, 105, 116, 99, 111, 105, 110, 32, 80, 114, 105, 99, 101, 32, 67, 104, 97, 114, 116 >>
      [] label = "Mempool.space (Bitcoin Explorer)" ->
           << 77, 101, 109, 112, 111, 111, 108, 46, 115, 112, 97, 99, 101, 32, 40, 66, 105, 116, 99, 111, 105, 110, 32, 69, 120, 112, 108, 111, 114, 101, 114, 41 >>

\* Python's < on two strings, given as code points.
RECURSIVE StrLess(_, _)
StrLess(a, b) ==
    IF a = << >> THEN b # << >>
    ELSE IF b = << >> THEN FALSE
    ELSE IF a[1] # b[1] THEN a[1] < b[1]
    ELSE StrLess(Tail(a), Tail(b))

\* Line 335: relevant_links.sort(key=lambda x: x[0]).
RECURSIVE SortByText(_)
SortByText(links) ==
    IF links = {} THEN << >>
    ELSE LET first == CHOOSE l \in links :
                         \A m \in links \ {l} :
                            ~StrLess(CodePoints(m.text), CodePoints(l.text))
         IN  << first >> \o SortByText(links \ {first})

\* Lines 325-338: the links of the section appended to bot_response, in the
\* order of the section; << >> when nothing is appended.
LinksSection(text) == SortByText(find_relevant_links(text, RESOURCE_LINKS))

\* The texts bot_response can be after lines 301-321, and the section of each.
AnswerTexts ==
    { "Bitcoin is a decentralized digital currency.",
      "What is Bitcoin? MINING secures the blockchains.",
      "Response blocked or incomplete. Reason: r. Finish: f. Please try rephrasing.",
      "An internal error occurred while contacting the AI: e" }
SectionOf == [text \in AnswerTexts |-> LinksSection(text)]

\* ------------------------------------------------------------ the responses
\* An HTTP response: status, the key of the JSON body and its text.
Response(status, key, kind, text) ==
    [status |-> status, key |-> key, kind |-> kind, text |-> text,
     links |-> << >>]

\* Line 264.
NotInitialized ==
    Response(503, "answer", "fixed",
             "The chatbot backend is not fully initialized. Please try again later or contact the administrator.")
\* Line 272.
InvalidRequest ==
    Response(400, "error", "fixed",
             "Invalid request. Please provide 'question' and 'history' in the JSON body.")
\* Line 279.
PleaseEnter == Response(200, "answer", "fixed", "Please enter a question.")
\* Line 345.
InternalError ==
    Response(500, "error", "fixed", "An unexpected internal server error occurred.")

\* Lines 288-295: the data block of the prompt. error is the line
\* "Data Fetch Status: ERROR - {fetch_error}", fields the numeric lines of the
\* text (the text without its header).
DataBlock(ret) ==
    IF ~IsNone(ret.note)
    THEN [error |-> ret.note, fields |-> None]
    ELSE [error |-> None,
          fields |-> Some([price |-> ret.text.price,
                           market_cap |-> ret.text.market_cap,
                           volume |-> ret.text.volume,
                           updated |-> ret.text.updated])]

\* Line 297: prompt_with_data.
Prompt(ret, question) == [data_block |-> DataBlock(ret), question |-> question]

\* Lines 159-171: format_history_for_gemini. message['type'] and
\* message['text'] raise KeyError for a turn without the key.
FormatHistoryRaises(history) ==
    \E i \in 1..Len(history.turns) :
        ~history.turns[i].has_type \/ ~history.turns[i].has_text

GeminiTurn(role, text) == [role |-> role, text |-> text]

\* Mutant of format_history_for_gemini: "model" only for the type "bot".
format_history_model_if_bot(history) ==
    << GeminiTurn("user", "SYSTEM_PROMPT"),
       GeminiTurn("model", "Okay, I am ready to answer questions about Bitcoin and use the provided real-time data.") >>
    \o [i \in 1..Len(history.turns) |->
          GeminiTurn(IF history.turns[i].type = "bot" THEN "model" ELSE "user",
                     history.turns[i].text)]

format_history_for_gemini(history) ==
    << GeminiTurn("user", "SYSTEM_PROMPT"),
       GeminiTurn("model", "Okay, I am ready to answer questions about Bitcoin and use the provided real-time data.") >>
    \o [i \in 1..Len(history.turns) |->
          GeminiTurn(IF history.turns[i].type = "user" THEN "user" ELSE "model",
                     history.turns[i].text)]

\* What the LLM collaborator does with a message: a reply with parts (its
\* text, possibly with surrounding whitespace), a reply without parts, or an
\* exception.
LlmReply(kind, text, padded) == [kind |-> kind, text |-> text, padded |-> padded]
LlmOutcomes ==
    { LlmReply("parts", "Bitcoin is a decentralized digital currency.", FALSE),
      LlmReply("parts", "Bitcoin is a decentralized digital currency.", TRUE),
      LlmReply("parts", "What is Bitcoin? MINING secures the blockchains.", FALSE),
      LlmReply("blocked", "", FALSE),
      LlmReply("raises", "", FALSE) }

\* Lines 301-321: bot_response from the LLM's outcome; an exception of
\* format_history_for_gemini is raised inside the same try.
BotResponse(history, out) ==
    IF FormatHistoryRaises(history) \/ out.kind = "raises"
    THEN Response(200, "answer", "ai_error",
                  "An internal error occurred while contacting the AI: e")
    ELSE IF out.kind = "parts"
    THEN Response(200, "answer", "reply", out.text)      \* response.text.strip()
    ELSE Response(200, "answer", "blocked",
                  "Response blocked or incomplete. Reason: r. Finish: f. Please try rephrasing.")

\* Lines 323-341: the answer returned, bot_response with the section of the
\* related resources appended when a rule matched.
Answer(history, out) ==
    LET bot_response == BotResponse(history, out)
    IN  [bot_response EXCEPT !.links = SectionOf[bot_response.text]]

\* ------------------------------------------------------------------ state
VARIABLES
    model_ok,        \* model is not None (lines 48-55), fixed at start-up
    now,             \* the wall clock, time.time()
    cached_data,     \* global, line 84: None or the snapshot
    last_fetch_time, \* global, line 85
    pc,              \* where each worker thread is in the handler
    req,             \* the request a thread is serving
    current_time,    \* local of get_bitcoin_data, line 90
    seen,            \* what the freshness test of line 91 found
    kind,            \* the branch the fetch ended in (Outcome)
    data,            \* locals response/data, lines 99-101, while the call lasts
    ret,             \* <<>> or the pair get_bitcoin_data returned
    fetches,         \* calls of requests.get made for the request
    llm_calls,       \* calls of chat.send_message made for the request
    sent,            \* <<>> or what was sent to the LLM
    response,        \* <<>> or the HTTP response of the request
    latest_fetch     \* history variable, kept in the behaviours of
                     \* SpecHistory only: the successful fetch whose response
                     \* was received last, with the current_time of its call

globals == << model_ok, now, cached_data, last_fetch_time >>
history == << latest_fetch >>
locals == << pc, req, current_time, seen, kind, data, ret, fetches, llm_calls,
             sent, response >>
vars == << model_ok, now, cached_data, last_fetch_time, pc, req, current_time,
           seen, kind, data, ret, fetches, llm_calls, sent, response,
           latest_fetch >>

Init ==
    /\ model_ok \in BOOLEAN
    /\ now = StartTime
    /\ cached_data = None
    /\ last_fetch_time = 0
    /\ pc = [t \in Threads |-> "idle"]
    /\ req = [t \in Threads |-> None]
    /\ current_time = [t \in Threads |-> 0]
    /\ seen = [t \in Threads |-> "none"]
    /\ kind = [t \in Threads |-> "none"]
    /\ data = [t \in Threads |-> None]
    /\ ret = [t \in Threads |-> None]
    /\ fetches = [t \in Threads |-> 0]
    /\ llm_calls = [t \in Threads |-> 0]
    /\ sent = [t \in Threads |-> None]
    /\ response = [t \in Threads |-> None]
    /\ latest_fetch = [recorded |-> FALSE, fetch |-> None]

\* The clock advances.
Tick ==
    /\ \E d \in TickSteps :
          /\ now + d <= MaxTime
          /\ now' = now + d
    /\ UNCHANGED << model_ok, cached_data, last_fetch_time >>
    /\ UNCHANGED locals
    /\ UNCHANGED history

\* Lines 260-282 of ask_bitcoin_api: a thread takes a request and runs the
\* handler up to the call of get_bitcoin_data, or to an early return.
AskReceive(t) ==
    /\ pc[t] \in {"idle", "done"}
    /\ \E r \in Requests :
          /\ req' = [req EXCEPT ![t] = Some(r)]
          /\ IF ~model_ok
             THEN /\ response' = [response EXCEPT ![t] = Some(NotInitialized)]
                  /\ pc' = [pc EXCEPT ![t] = "done"]
             ELSE IF MissingFields(r)
             THEN /\ response' = [response EXCEPT ![t] = Some(InvalidRequest)]
                  /\ pc' = [pc EXCEPT ![t] = "done"]
             ELSE IF EmptyQuestion(r)
             THEN /\ response' = [response EXCEPT ![t] = Some(PleaseEnter)]
                  /\ pc' = [pc EXCEPT ![t] = "done"]
             ELSE IF HistoryLenRaises(r)
             THEN /\ response' = [response EXCEPT ![t] = Some(InternalError)]
                  /\ pc' = [pc EXCEPT ![t] = "done"]
             ELSE /\ response' = [response EXCEPT ![t] = None]
                  /\ pc' = [pc EXCEPT ![t] = "gbd_begin"]
    /\ current_time' = [current_time EXCEPT ![t] = 0]
    /\ seen' = [seen EXCEPT ![t] = "none"]
    /\ kind' = [kind EXCEPT ![t] = "none"]
    /\ data' = [data EXCEPT ![t] = None]
    /\ ret' = [ret EXCEPT ![t] = None]
    /\ fetches' = [fetches EXCEPT ![t] = 0]
    /\ llm_calls' = [llm_calls EXCEPT ![t] = 0]
    /\ sent' = [sent EXCEPT ![t] = None]
    /\ UNCHANGED globals
    /\ UNCHANGED history

\* Lines 90-91: read the clock and test cached_data for truth.
GbdBegin(t) ==
    /\ pc[t] = "gbd_begin"
    /\ current_time' = [current_time EXCEPT ![t] = now]
    /\ IF IsNone(cached_data)
       THEN /\ seen' = [seen EXCEPT ![t] = "empty"]
            /\ pc' = [pc EXCEPT ![t] = "gbd_fetch"]
       ELSE /\ seen' = seen
            /\ pc' = [pc EXCEPT ![t] = "gbd_check"]
    /\ UNCHANGED << req, kind, data, ret, fetches, llm_calls, sent, response >>
    /\ UNCHANGED globals
    /\ UNCHANGED history

\* Line 91, second operand: read last_fetch_time and compare.
GbdCheck(t) ==
    /\ pc[t] = "gbd_check"
    /\ IF IsFresh(current_time[t], last_fetch_time)
       THEN /\ seen' = [seen EXCEPT ![t] = "fresh"]
            /\ pc' = [pc EXCEPT ![t] = "gbd_hit"]
       ELSE /\ seen' = [seen EXCEPT ![t] = "expired"]
            /\ pc' = [pc EXCEPT ![t] = "gbd_fetch"]
    /\ UNCHANGED << req, current_time, kind, data, ret, fetches, llm_calls,
                    sent, response >>
    /\ UNCHANGED globals
    /\ UNCHANGED history

\* Line 93: the cache hit returns the text of cached_data.
GbdHit(t) ==
    /\ pc[t] = "gbd_hit"
    /\ ret' = [ret EXCEPT ![t] = Some(HitReturn(cached_data))]
    /\ pc' = [pc EXCEPT ![t] = "respond"]
    /\ UNCHANGED << req, current_time, seen, kind, data, fetches, llm_calls,
                    sent, response >>
    /\ UNCHANGED globals
    /\ UNCHANGED history

\* Lines 99-123 and the heads of the handlers at 133, 141, 149: the one
\* request to the provider, and what its response is taken for. An exception
\* no clause takes would reach the handler's except of line 343.
GbdFetch(t) ==
    /\ pc[t] = "gbd_fetch"
    /\ fetches' = [fetches EXCEPT ![t] = @ + 1]
    /\ \E r \in ProviderResponses :
         \E x \in TryBlock(r) :
            /\ kind' = [kind EXCEPT ![t] = Outcome(x)]
            /\ data' = [data EXCEPT ![t] = Some(r)]
            /\ latest_fetch' =
                  IF latest_fetch.recorded /\ Outcome(x) = "ok"
                  THEN [latest_fetch EXCEPT
                          !.fetch = Some([raw_data |-> r, at |-> current_time[t]])]
                  ELSE latest_fetch
            /\ IF Outcome(x) = "escapes"
               THEN /\ response' = [response EXCEPT ![t] = Some(InternalError)]
                    /\ pc' = [pc EXCEPT ![t] = "done"]
               ELSE /\ response' = response
                    /\ pc' = [pc EXCEPT ![t] =
                                IF Outcome(x) = "ok" THEN "gbd_store" ELSE "gbd_fail"]
    /\ UNCHANGED << req, current_time, seen, ret, llm_calls, sent >>
    /\ UNCHANGED globals

\* Lines 125-128: cached_data is replaced.
GbdStore(t) ==
    /\ pc[t] = "gbd_store"
    /\ cached_data' = Some(Snapshot(Render(The(data[t])), The(data[t])))
    /\ pc' = [pc EXCEPT ![t] = "gbd_stamp"]
    /\ UNCHANGED << model_ok, now, last_fetch_time >>
    /\ UNCHANGED << req, current_time, seen, kind, data, ret, fetches,
                    llm_calls, sent, response >>
    /\ UNCHANGED history

\* Lines 129-131: last_fetch_time is set and the fresh text returned.
GbdStamp(t) ==
    /\ pc[t] = "gbd_stamp"
    /\ last_fetch_time' = current_time[t]
    /\ ret' = [ret EXCEPT ![t] = Some(FreshReturn(Render(The(data[t]))))]
    /\ data' = [data EXCEPT ![t] = None]
    /\ pc' = [pc EXCEPT ![t] = "respond"]
    /\ UNCHANGED << model_ok, now, cached_data >>
    /\ UNCHANGED << req, current_time, seen, kind, fetches, llm_calls, sent,
                    response >>
    /\ UNCHANGED history

\* Mutant of GbdFail: a failed fetch invalidates the cache.
GbdFailInvalidates(t) ==
    /\ pc[t] = "gbd_fail"
    /\ cached_data' = None
    /\ last_fetch_time' = 0
    /\ pc' = [pc EXCEPT ![t] = "respond"]
    /\ ret' = [ret EXCEPT ![t] = Some(UnavailableReturn(kind[t]))]
    /\ data' = [data EXCEPT ![t] = None]
    /\ UNCHANGED << model_ok, now >>
    /\ UNCHANGED << req, current_time, seen, kind, fetches, llm_calls, sent,
                    response >>
    /\ UNCHANGED history

\* Lines 136, 144, 152: if cached_data; lines 139, 147, 155 when it is None.
GbdFail(t) ==
    /\ pc[t] = "gbd_fail"
    /\ IF ~IsNone(cached_data)
       THEN /\ pc' = [pc EXCEPT ![t] = "gbd_stale"]
            /\ UNCHANGED << ret, data >>
       ELSE /\ pc' = [pc EXCEPT ![t] = "respond"]
            /\ ret' = [ret EXCEPT ![t] = Some(UnavailableReturn(kind[t]))]
            /\ data' = [data EXCEPT ![t] = None]
    /\ UNCHANGED << req, current_time, seen, kind, fetches, llm_calls, sent,
                    response >>
    /\ UNCHANGED globals
    /\ UNCHANGED history

\* Lines 138, 146, 154: the stale text of cached_data is returned.
GbdStale(t) ==
    /\ pc[t] = "gbd_stale"
    /\ ret' = [ret EXCEPT ![t] = Some(StaleReturn(kind[t], cached_data))]
    /\ data' = [data EXCEPT ![t] = None]
    /\ pc' = [pc EXCEPT ![t] = "respond"]
    /\ UNCHANGED << req, current_time, seen, kind, fetches, llm_calls, sent,
                    response >>
    /\ UNCHANGED globals
    /\ UNCHANGED history

\* Lines 285-341: the prompt is built from the pair, the LLM is called and
\* its outcome becomes the answer. The handler returns: its locals are gone.
AskRespond(t) ==
    /\ pc[t] = "respond"
    /\ LET r == The(req[t])
           p == Prompt(The(ret[t]), r.question)
       IN  IF FormatHistoryRaises(r.history)
           THEN /\ sent' = sent
                /\ llm_calls' = llm_calls
                /\ response' = [response EXCEPT ![t] =
                                  Some(Answer(r.history, LlmReply("raises", "", FALSE)))]
           ELSE /\ sent' = [sent EXCEPT ![t] =
                              Some([history |-> format_history_for_gemini(r.history),
                                    message |-> p])]
                /\ llm_calls' = [llm_calls EXCEPT ![t] = @ + 1]
                /\ \E out \in LlmOutcomes :
                      response' = [response EXCEPT ![t] =
                                     Some(Answer(r.history, out))]
    /\ pc' = [pc EXCEPT ![t] = "done"]
    /\ current_time' = [current_time EXCEPT ![t] = 0]
    /\ seen' = [seen EXCEPT ![t] = "none"]
    /\ kind' = [kind EXCEPT ![t] = "none"]
    /\ ret' = [ret EXCEPT ![t] = None]
    /\ UNCHANGED << req, data, fetches >>
    /\ UNCHANGED globals
    /\ UNCHANGED history

Next ==
    \/ Tick
    \/ \E t \in Threads :
          \/ AskReceive(t)
          \/ GbdBegin(t)
          \/ GbdCheck(t)
          \/ GbdHit(t)
          \/ GbdFetch(t)
          \/ GbdStore(t)
          \/ GbdStamp(t)
          \/ GbdFail(t)
          \/ GbdStale(t)
          \/ AskRespond(t)

Spec == Init /\ [][Next]_vars

\* The same program with the history of fetches recorded.
InitHistory ==
    /\ model_ok \in BOOLEAN
    /\ now = StartTime
    /\ cached_data = None
    /\ last_fetch_time = 0
    /\ pc = [t \in Threads |-> "idle"]
    /\ req = [t \in Threads |-> None]
    /\ current_time = [t \in Threads |-> 0]
    /\ seen = [t \in Threads |-> "none"]
    /\ kind = [t \in Threads |-> "none"]
    /\ data = [t \in Threads |-> None]
    /\ ret = [t \in Threads |-> None]
    /\ fetches = [t \in Threads |-> 0]
    /\ llm_calls = [t \in Threads |-> 0]
    /\ sent = [t \in Threads |-> None]
    /\ response = [t \in Threads |-> None]
    /\ latest_fetch = [recorded |-> TRUE, fetch |-> None]

SpecHistory == InitHistory /\ [][Next]_vars

\* ------------------------------------------------------------------ claims
\* A failed fetch: the branch is one of the three failure branches.
Failed(t) == kind[t] \in {"parse", "request", "unexpected"}

DataHeader == "--- RECENT BITCOIN DATA ---"

\* Every snapshot in the cache is the rendering of the response it came from.
CacheIsRendered ==
    IsNone(cached_data)
    \/ The(cached_data).formatted_string = Render(The(cached_data).raw_data)

\* C1: a call that finds a snapshot whose age, current_time - last_fetch_time,
\* is below 300 takes the cache-hit path: it returns the rendered text of the
\* cached snapshot (the text its fetch rendered) with note None and makes no
\* request to the provider.
C1_CacheHitWithinTtl ==
    [][\A t \in Threads :
         /\ (/\ pc[t] = "gbd_check"
             /\ pc'[t] # "gbd_check"
             /\ current_time[t] - last_fetch_time < 300)
            => /\ pc'[t] = "gbd_hit"
               /\ fetches'[t] = 0
         /\ (pc[t] = "gbd_hit" /\ pc'[t] # "gbd_hit")
            => /\ pc'[t] = "respond"
               /\ ~IsNone(cached_data)
               /\ CacheIsRendered
               /\ ret'[t] = Some([text |-> The(cached_data).formatted_string,
                                  note |-> None])
               /\ The(ret'[t]).text.head = DataHeader
               /\ fetches'[t] = 0
               /\ UNCHANGED << cached_data, last_fetch_time >>
      ]_vars

\* C1 witness: a call returned from the cache at age 299.
C1_Witness ==
    \E t \in Threads :
        /\ pc[t] = "respond"
        /\ seen[t] = "fresh"
        /\ fetches[t] = 0
        /\ ~IsNone(ret[t])
        /\ current_time[t] - last_fetch_time = 299

\* C2: a call that finds the cache empty, or the snapshot's age at 300 or
\* more, goes to the provider, and when it returns it has made exactly one
\* request; no call ever makes a second one.
C2_OneFetchPerMiss ==
    [][\A t \in Threads :
         /\ (pc[t] = "gbd_begin" /\ pc'[t] # "gbd_begin" /\ IsNone(cached_data))
            => pc'[t] = "gbd_fetch" /\ seen'[t] = "empty"
         /\ (/\ pc[t] = "gbd_check"
             /\ pc'[t] # "gbd_check"
             /\ current_time[t] - last_fetch_time >= 300)
            => pc'[t] = "gbd_fetch" /\ seen'[t] = "expired"
         /\ (pc[t] = "gbd_fetch" /\ pc'[t] # "gbd_fetch")
            => fetches[t] = 0 /\ fetches'[t] = 1
         /\ (pc[t] # "respond" /\ pc'[t] = "respond" /\ seen[t] \in {"empty", "expired"})
            => fetches'[t] = 1
         /\ fetches'[t] <= 1
      ]_vars

\* C2 witness: a call made at age exactly 300 returned after one request.
C2_Witness ==
    \E t \in Threads :
        /\ pc[t] = "respond"
        /\ seen[t] = "expired"
        /\ fetches[t] = 1
        /\ current_time[t] - last_fetch_time = 300

\* C3: when the fetch failed and cached_data holds a snapshot, the call
\* returns the snapshot's rendered text and a non-empty staleness note.
C3_StaleFallback ==
    [][\A t \in Threads :
         /\ (pc[t] = "gbd_fail" /\ pc'[t] # "gbd_fail" /\ ~IsNone(cached_data))
            => pc'[t] = "gbd_stale"
         /\ (pc[t] = "gbd_stale" /\ pc'[t] # "gbd_stale")
            => /\ Failed(t)
               /\ ~IsNone(cached_data)
               /\ pc'[t] = "respond"
               /\ The(ret'[t]).text = The(cached_data).formatted_string
               /\ The(ret'[t]).text.head = DataHeader
               /\ ~IsNone(The(ret'[t]).note)
               /\ The(The(ret'[t]).note) \in
                     { "Using stale data due to parsing error.",
                       "Using stale data due to fetch error.",
                       "Using stale data due to unexpected error." }
      ]_vars

\* C3 witness: a failed fetch returned the text of the cached snapshot.
C3_Witness ==
    \E t \in Threads :
        /\ pc[t] = "respond"
        /\ Failed(t)
        /\ ~IsNone(ret[t])
        /\ ~IsNone(cached_data)
        /\ The(ret[t]).text = The(cached_data).formatted_string
        /\ ~IsNone(The(ret[t]).note)

\* A text that is one of the unavailable placeholders and not rendered data.
IsPlaceholder(text) == text.head # DataHeader

\* C4 as stated: whenever a fetch fails with no snapshot stored, the text
\* returned is one and the same placeholder, whatever the kind of failure.
C4_SamePlaceholder ==
    \A t, u \in Threads :
        (/\ pc[t] = "respond" /\ Failed(t) /\ IsPlaceholder(The(ret[t]).text)
         /\ pc[u] = "respond" /\ Failed(u) /\ IsPlaceholder(The(ret[u]).text))
        => The(ret[t]).text = The(ret[u]).text

\* C4 amended: when the fetch failed and cached_data is None, the call returns
\* the placeholder text of the failure's kind (one of three fixed texts: format
\* issue, API error, unexpected error) and a non-empty note.
C4_PlaceholderByKind ==
    [][\A t \in Threads :
         (pc[t] = "gbd_fail" /\ pc'[t] # "gbd_fail" /\ IsNone(cached_data))
         => /\ Failed(t)
            /\ pc'[t] = "respond"
            /\ The(ret'[t]).text.head =
                  (CASE kind[t] = "parse" ->
                          "Could not fetch real-time data due to an API response format issue."
                     [] kind[t] = "request" ->
                          "Could not fetch real-time data due to an API error."
                     [] kind[t] = "unexpected" ->
                          "Could not fetch real-time data due to an unexpected error.")
            /\ The(ret'[t]).text.price = NA
            /\ The(ret'[t]).text.market_cap = NA
            /\ The(ret'[t]).text.volume = NA
            /\ ~IsNone(The(ret'[t]).note)
            /\ The(The(ret'[t]).note) # ""
            /\ UNCHANGED << cached_data, last_fetch_time >>
      ]_vars

\* C4 witness: a failed fetch with an empty cache returned the placeholder of
\* a response-format failure.
C4_Witness ==
    \E t \in Threads :
        /\ pc[t] = "respond"
        /\ kind[t] = "parse"
        /\ IsNone(cached_data)
        /\ The(ret[t]).text.head =
              "Could not fetch real-time data due to an API response format issue."
        /\ ~IsNone(The(ret[t]).note)

\* C5: get_bitcoin_data never raises: no exception of the try block escapes
\* its except clauses, every call that returned has returned a (text, note)
\* pair, and the note is not None exactly when the fetch failed.
C5_NeverRaises ==
    \A t \in Threads :
        /\ kind[t] # "escapes"
        /\ pc[t] = "respond"
           => /\ ~IsNone(ret[t])
              /\ Failed(t) => ~IsNone(The(ret[t]).note)
              /\ ~Failed(t) => IsNone(The(ret[t]).note)
        /\ (pc[t] = "done" /\ fetches[t] > 0)
           => The(response[t]).status = 200

\* C5 witness: a provider response of the wrong type (a TypeError or a
\* ValueError inside the try block) was returned as a pair with a note.
C5_Witness ==
    \E t \in Threads :
        /\ pc[t] = "respond"
        /\ kind[t] = "unexpected"
        /\ ~IsNone(The(ret[t]).note)

\* C6: cached_data and last_fetch_time are changed only by a call whose fetch
\* succeeded, which replaces both (the snapshot at line 125, the timestamp at
\* line 129); no step of a call whose fetch failed changes either.
C6_CacheFrame ==
    [][/\ (cached_data' # cached_data)
          => \E t \in Threads :
                /\ pc[t] = "gbd_store" /\ pc'[t] = "gbd_stamp" /\ kind[t] = "ok"
                /\ cached_data' = Some(Snapshot(Render(The(data[t])), The(data[t])))
       /\ (last_fetch_time' # last_fetch_time)
          => \E t \in Threads :
                /\ pc[t] = "gbd_stamp" /\ pc'[t] = "respond" /\ kind[t] = "ok"
                /\ last_fetch_time' = current_time[t]
       /\ \A t \in Threads :
             /\ (pc[t] = "gbd_store" /\ pc'[t] # "gbd_store")
                => /\ pc'[t] = "gbd_stamp"
                   /\ cached_data' = Some(Snapshot(Render(The(data[t])), The(data[t])))
             /\ (pc[t] = "gbd_stamp" /\ pc'[t] # "gbd_stamp")
                => last_fetch_time' = current_time[t]
             /\ (Failed(t) /\ pc'[t] # pc[t])
                => UNCHANGED << cached_data, last_fetch_time >>
      ]_vars

\* C6 witness: a call whose fetch failed has returned and the cache still
\* holds a snapshot stamped at another time.
C6_Witness ==
    \E t \in Threads :
        /\ pc[t] = "respond"
        /\ Failed(t)
        /\ ~IsNone(cached_data)
        /\ last_fetch_time # current_time[t]
        /\ last_fetch_time # 0

StaleNotes ==
    { "Using stale data due to parsing error.",
      "Using stale data due to fetch error.",
      "Using stale data due to unexpected error." }

\* C7 as stated: the data block of the prompt sent to the LLM carries the
\* data-fetch-error marker only when the note reports an error without data;
\* with a staleness note it carries the numeric fields of the stale snapshot.
C7_StaleNoteKeepsFields ==
    \A t \in Threads :
        (pc[t] = "done" /\ ~IsNone(sent[t]))
        => LET block == The(sent[t]).message.data_block
           IN  /\ ~IsNone(block.error) => The(block.error) \notin StaleNotes
               /\ IsNone(block.error) => ~IsNone(block.fields)

\* C8 as stated (a configured model taken for granted): every request whose
\* question is empty is answered with the fixed "Please enter a question." and
\* calls neither collaborator.
C8_EmptyQuestionFixedAnswer ==
    \A t \in Threads :
        (/\ pc[t] = "done"
         /\ model_ok
         /\ The(req[t]).has_question
         /\ The(req[t]).question = "")
        => /\ The(response[t]).text = "Please enter a question."
           /\ fetches[t] = 0
           /\ llm_calls[t] = 0

\* C8 amended: with the model configured, a request that has both fields and
\* an empty question is answered 200 with the fixed "Please enter a question."
\* in the step that receives it, without a call of get_bitcoin_data or of the
\* LLM and without a change of cached_data or last_fetch_time.
C8_EmptyQuestionGuard ==
    [][\A t \in Threads :
         (/\ pc[t] \in {"idle", "done"}
          /\ (req'[t] # req[t] \/ pc'[t] # pc[t] \/ response'[t] # response[t])
          /\ model_ok
          /\ The(req'[t]).has_question
          /\ The(req'[t]).has_history
          /\ The(req'[t]).question = "")
         => /\ pc'[t] = "done"
            /\ response'[t] = Some([status |-> 200, key |-> "answer", kind |-> "fixed",
                                    text |-> "Please enter a question.",
                                    links |-> << >>])
            /\ fetches'[t] = 0
            /\ llm_calls'[t] = 0
            /\ IsNone(ret'[t])
            /\ IsNone(sent'[t])
            /\ UNCHANGED << cached_data, last_fetch_time >>
      ]_vars

\* C8 witness: an empty question was answered while the cache held a snapshot.
C8_Witness ==
    \E t \in Threads :
        /\ pc[t] = "done"
        /\ model_ok
        /\ The(req[t]).has_question /\ The(req[t]).has_history
        /\ The(req[t]).question = ""
        /\ The(response[t]).text = "Please enter a question."
        /\ fetches[t] = 0
        /\ ~IsNone(cached_data)

\* C9 as stated: with the model configured, every request that has both the
\* question and the history field is answered with status 200.
C9_BothFieldsAlwaysOk ==
    \A t \in Threads :
        (/\ pc[t] = "done"
         /\ model_ok
         /\ The(req[t]).has_question
         /\ The(req[t]).has_history)
        => /\ The(response[t]).status = 200
           /\ The(response[t]).key = "answer"

\* The three numeric fields of a quote as dict.get returns them.
NumericFields(r) == { Get(r.usd), Get(r.usd_market_cap), Get(r.usd_24h_vol) }

\* A response that arrived: status ok, a JSON object with a "bitcoin" object.
Arrived(r) ==
    /\ r.outcome = "response" /\ r.ok /\ r.json
    /\ r.top = "object" /\ r.has_bitcoin /\ r.bitcoin_is_dict

AllNA(text) ==
    /\ text.head = DataHeader
    /\ text.price = NA /\ text.market_cap = NA /\ text.volume = NA

\* C10 as stated: a response that arrived with the three numeric fields
\* absent is taken for a success.
C10_AllAbsentIsSuccess ==
    \A t \in Threads :
        (/\ ~IsNone(data[t])
         /\ Arrived(The(data[t]))
         /\ The(data[t]).usd.k = "absent"
         /\ The(data[t]).usd_market_cap.k = "absent"
         /\ The(data[t]).usd_24h_vol.k = "absent")
        => kind[t] = "ok"

\* C10 amended: a response that arrived with the key "usd" present and no
\* numeric value in any of the three fields ("usd": null, market cap and
\* volume absent or null) is a success: all three are rendered N/A, the
\* snapshot replaces cached_data, last_fetch_time is reset and the note is
\* None. A response without the key "usd" is a parse failure.
C10_NullPriceIsSuccess ==
    [][\A t \in Threads :
         (~IsNone(data[t]) /\ Arrived(The(data[t])))
         => /\ (The(data[t]).usd.k # "absent" /\ NumericFields(The(data[t])) = {Null})
               => /\ kind[t] = "ok"
                  /\ (pc[t] = "gbd_store" /\ pc'[t] # "gbd_store")
                     => /\ ~IsNone(cached_data')
                        /\ AllNA(The(cached_data').formatted_string)
                        /\ The(cached_data').raw_data = The(data[t])
                  /\ (pc[t] = "gbd_stamp" /\ pc'[t] # "gbd_stamp")
                     => /\ last_fetch_time' = current_time[t]
                        /\ pc'[t] = "respond"
                        /\ AllNA(The(ret'[t]).text)
                        /\ IsNone(The(ret'[t]).note)
            /\ The(data[t]).usd.k = "absent" => kind[t] = "parse"
      ]_vars

\* C10 witness: a call returned the all-N/A text of a fetch of "usd": null,
\* with the cache holding it and stamped with the call's time.
C10_Witness ==
    \E t \in Threads :
        /\ pc[t] = "respond"
        /\ kind[t] = "ok"
        /\ AllNA(The(ret[t]).text)
        /\ IsNone(The(ret[t]).note)
        /\ ~IsNone(cached_data)
        /\ AllNA(The(cached_data).formatted_string)
        /\ last_fetch_time = current_time[t]

\* C11: for a history of n turns (each with its type and text) the handler
\* sends the LLM n + 3 turns: the persona preamble, the fixed acknowledgement,
\* the n turns in their order with their texts ("user" as role user, any
\* other type as role model), and last the data block with the question.
C11_TurnsSent ==
    [][\A t \in Threads :
         (pc[t] = "respond" /\ pc'[t] = "done")
         => LET h == The(req[t]).history.turns
                n == Len(h)
                wellformed == \A i \in 1..n : h[i].has_type /\ h[i].has_text
                r == The(ret[t])
            IN  /\ wellformed <=> ~IsNone(sent'[t])
                /\ wellformed =>
                     LET turns == The(sent'[t]).history
                         last == The(sent'[t]).message
                     IN  /\ Len(turns) + 1 = n + 3
                         /\ turns[1] = [role |-> "user", text |-> "SYSTEM_PROMPT"]
                         /\ turns[2].role = "model"
                         /\ turns[2].text = "Okay, I am ready to answer questions about Bitcoin and use the provided real-time data."
                         /\ \A i \in 1..n :
                               /\ turns[i + 2].text = h[i].text
                               /\ turns[i + 2].role =
                                     (IF h[i].type = "user" THEN "user" ELSE "model")
                         /\ last.question = The(req[t]).question
                         /\ last.data_block.error = r.note
                         /\ IsNone(r.note) =>
                               /\ ~IsNone(last.data_block.fields)
                               /\ The(last.data_block.fields).price = r.text.price
                               /\ The(last.data_block.fields).market_cap = r.text.market_cap
                               /\ The(last.data_block.fields).volume = r.text.volume
                               /\ The(last.data_block.fields).updated = r.text.updated
                         /\ llm_calls'[t] = 1
      ]_vars

\* C11 witness: a history of three turns was sent as five turns and the
\* message.
C11_Witness ==
    \E t \in Threads :
        /\ pc[t] = "done"
        /\ ~IsNone(sent[t])
        /\ Len(The(req[t]).history.turns) = 3
        /\ Len(The(sent[t]).history) = 5
        /\ The(sent[t]).history[5].role = "model"

\* No call is between the receipt of a successful response and line 129.
NoStoreInProgress == \A t \in Threads : pc[t] \notin {"gbd_store", "gbd_stamp"}

\* C12 as stated, at the states in which no store is in progress: the cache
\* is empty, or it holds the snapshot of the successful fetch whose response
\* was received last and last_fetch_time is the timestamp of that fetch.
C12_CacheHoldsLatestFetch ==
    (latest_fetch.recorded /\ NoStoreInProgress)
    => IF IsNone(latest_fetch.fetch)
       THEN IsNone(cached_data)
       ELSE /\ ~IsNone(cached_data)
            /\ The(cached_data).raw_data = The(latest_fetch.fetch).raw_data
            /\ The(cached_data).formatted_string =
                  Render(The(latest_fetch.fetch).raw_data)
            /\ last_fetch_time = The(latest_fetch.fetch).at

\* ------------------------------------------------------------------- C13
\* The links of the rules of RESOURCE_LINKS that match the text of an answer.
MatchingLinks ==
    [text \in AnswerTexts |->
        UNION { { rule.links[i] : i \in 1..Len(rule.links) } :
                rule \in { r \in RESOURCE_LINKS : Search(r, text) } }]

\* A letter with its case folded, and the alphabetical order of two labels:
\* the order of a dictionary, in which the case of a letter does not count.
FoldCase(c) == IF c >= 65 /\ c =< 90 THEN c + 32 ELSE c
Folded(cs) == [i \in 1..Len(cs) |-> FoldCase(cs[i])]
AlphabeticallyBefore(a, b) ==
    StrLess(Folded(CodePoints(a)), Folded(CodePoints(b)))

\* The links of a section are those of the matching rules, each once.
ExactlyOnce(answer) ==
    /\ { answer.links[i] : i \in 1..Len(answer.links) }
          = MatchingLinks[answer.text]
    /\ Len(answer.links) = Cardinality(MatchingLinks[answer.text])

\* C13: the answer of a request that reached the LLM stage carries the links
\* of all rules its text matches, each (label, url) pair once, in alphabetical
\* order of label, and nothing when no rule matches.
C13_LinksAlphabetical ==
    \A t \in Threads :
        (pc[t] = "done" /\ The(response[t]).kind \in {"reply", "blocked", "ai_error"})
        => LET answer == The(response[t])
           IN  /\ ExactlyOnce(answer)
               /\ \A i, j \in 1..Len(answer.links) :
                     i < j => AlphabeticallyBefore(answer.links[i].text,
                                                   answer.links[j].text)

\* What the handler does keep: the links of all matching rules, each once, in
\* the order of Python's comparison of the labels, capitals before small
\* letters.
LinksInCodePointOrder ==
    \A t \in Threads :
        (pc[t] = "done" /\ The(response[t]).kind \in {"reply", "blocked", "ai_error"})
        => LET answer == The(response[t])
           IN  /\ ExactlyOnce(answer)
               /\ \A i, j \in 1..Len(answer.links) :
                     i < j => StrLess(CodePoints(answer.links[i].text),
                                      CodePoints(answer.links[j].text))

\* An answer with the links of two rules and one with none were returned.
LinksAppended ==
    \E t, u \in Threads :
        /\ pc[t] = "done" /\ The(response[t]).kind = "reply"
        /\ Len(The(response[t]).links) = 3
        /\ pc[u] = "done" /\ The(response[u]).kind = "reply"
        /\ The(response[u]).links = << >>

\* ------------------------------------------------------------------- C14
\* The rendered texts of the responses a fetch can succeed with.
RenderedSnapshots ==
    { Render(r) : r \in { q \in ProviderResponses : "returns" \in TryBlock(q) } }

\* C14: from a state in which cached_data holds a snapshot, no step empties
\* cached_data, and every call of get_bitcoin_data that returns in the step
\* returns the rendered text of a successfully fetched response, never one of
\* the unavailable placeholders, whatever the provider did.
C14_SnapshotNeverLost ==
    [][~IsNone(cached_data)
       => /\ ~IsNone(cached_data')
          /\ \A t \in Threads :
                (IsNone(ret[t]) /\ ~IsNone(ret'[t]))
                => /\ ~IsPlaceholder(The(ret'[t]).text)
                   /\ The(ret'[t]).text \in RenderedSnapshots
      ]_vars

\* C14 witness: after one thread's request was served from a stored snapshot,
\* another thread's fetch failed with a request error and its call returned
\* rendered data with the stale note of that failure.
C14_Witness ==
    \E t, u \in Threads :
        /\ t # u
        /\ pc[t] = "done" /\ fetches[t] = 1
        /\ ~IsNone(cached_data)
        /\ pc[u] = "respond" /\ kind[u] = "request" /\ fetches[u] = 1
        /\ The(ret[u]).text \in RenderedSnapshots
        /\ The(ret[u]).note = Some(StaleNote("request"))

====
